---- MODULE Spec2Model ----
(***************************************************************************)
(* A model of flight_search.py: the date-pair generator, the day/time      *)
(* filter, the stopover evaluator, the offer ranker, the search driver     *)
(* (run_search / call_amadeus) and the presenter (display_offers).         *)
(*                                                                         *)
(* Conventions of the model                                                *)
(*   - a calendar date is a day number; day 0 is a Monday;                 *)
(*   - a timestamp ("at", an ISO-8601 string in the code) is a number of   *)
(*     minutes since day 0, 00:00; a time of day is minutes since 00:00;   *)
(*   - a wait between two segments (total_seconds() / 3600 in the code)    *)
(*     and a stopover limit are kept in minutes;                           *)
(*   - a float the code computes by a division (minutes / 60, float() of a *)
(*     decimal text) is the IEEE-754 double itself, <<i, hi, lo>>: its     *)
(*     integer part and the 60 binary digits after the point in two halves *)
(*     of 30;                                                              *)
(*   - an optional value (None in the code) is <<>>, a present one <<v>>;  *)
(*   - a decimal text such as "100.00" (price.total) is                    *)
(*     [int |-> 100, frac |-> <<0, 0>>]: the number before the point and   *)
(*     the digits after it.                                                *)
(*                                                                         *)
(* Line 421 of the source (`continue`) is indented like the `if` of line   *)
(* 420 it belongs to, so Python rejects the file as it stands with         *)
(* IndentationError before any statement runs: that is the initial state   *)
(* NotCompiled, which has no successor.  Every other state is a state of   *)
(* the file with line 421 read as the body of that `if`, the only reading  *)
(* under which the file is a program.                                      *)
(***************************************************************************)
EXTENDS Integers, Sequences, FiniteSets, TLC

VARIABLES
    ARGS,         \* the parsed command line (module global ARGS)
    pc,           \* where run_search stands: "start", "sweep", "call", "final",
                  \* "done", "crashed" (uncaught exception), "exited" (sys.exit),
                  \* or "probe" / "probed" when one function is exercised alone
    fault,        \* "none", or the exception that ended the process
    date_pairs,   \* run_search's local date_pairs
    oi, di, pi,   \* positions of the three nested loops of run_search (1-based)
    http,         \* call_amadeus: requests sent for the current query, last status
    calls,        \* history: the queries handed to call_amadeus, in order
    ALL_MATCHES,  \* module global ALL_MATCHES
    handed,       \* the argument of the latest display_offers call
    out,          \* what the latest display_offers call printed, in order
    shown,        \* history: offers printed in full by earlier display_offers calls
    retEval,      \* history: return_ok has been evaluated
    probe,        \* the input of a function exercised alone
    verdict       \* its result: <<>> before the call, <<r>> after

vars == <<ARGS, pc, fault, date_pairs, oi, di, pi, http, calls, ALL_MATCHES,
          handed, out, shown, retEval, probe, verdict>>

(***************************************************************************)
(* Time                                                                    *)
(***************************************************************************)
At(day, hh, mm) == day * 1440 + hh * 60 + mm

DateOf(ts) == ts \div 1440

\* datetime.time(): the time of day of a timestamp
TimeOf(ts) == ts % 1440

\* datetime.hour
HourOf(ts) == (ts % 1440) \div 60

\* dt.strftime("%a").lower()[:3]
DayKeys == <<"mon", "tue", "wed", "thu", "fri", "sat", "sun">>

WeekdayKey(ts) == DayKeys[(DateOf(ts) % 7) + 1]

\* d_date + "T12:00:00"
NoonOf(date) == At(date, 12, 0)

Abs(x) == IF x < 0 THEN -x ELSE x

Min(a, b) == IF a <= b THEN a ELSE b

Max(a, b) == IF a >= b THEN a ELSE b

\* seq[:n], n of either sign
SliceTo(seq, n) ==
    IF n >= 0 THEN SubSeq(seq, 1, Min(n, Len(seq)))
    ELSE SubSeq(seq, 1, Max(Len(seq) + n, 0))

(***************************************************************************)
(* Helper utilities                                                        *)
(***************************************************************************)
\* A duration "PT#H#M" is [H |-> <<>> or <<h>>, M |-> <<>> or <<m>>].
iso_duration_to_hm(duration) ==
    << IF duration.H = <<>> THEN 0 ELSE duration.H[1],
       IF duration.M = <<>> THEN 0 ELSE duration.M[1] >>

(***************************************************************************)
(* Floats.  A double below 2^22 whose last binary digit is not beyond the  *)
(* 60th after the point is <<i, hi, lo>>, of value i + hi/2^30 + lo/2^60   *)
(* with hi and lo below 2^30; two of them compare as the sequences do.     *)
(***************************************************************************)
RECURSIVE BitLen(_)
BitLen(n) == IF n = 0 THEN 0 ELSE 1 + BitLen(n \div 2)

\* ten more binary digits of r / den (0 <= r < den), and the remainder left
DivStep(r, den) == [q |-> (r * 1024) \div den, r |-> (r * 1024) % den]

Digits30(r, den) ==
    LET a == DivStep(r, den)
        b == DivStep(a.r, den)
        c == DivStep(b.r, den)
    IN  [q |-> (a.q * 1024 + b.q) * 1024 + c.q, r |-> c.r]

\* the double nearest to i + hi/2^30 + lo/2^60 (+ something below 2^-60 when
\* sticky), ties going to the even one: 53 significant binary digits are kept
RoundFloat(i, hi, lo, sticky) ==
    LET drop == IF i > 0 THEN 7 + BitLen(i)
                ELSE IF hi < 2^23 THEN 0
                ELSE CHOOSE d \in 1..7 : 2^(22 + d) <= hi /\ hi < 2^(23 + d)
    IN  IF drop <= 0 THEN <<i, hi, lo>>
        ELSE LET u    == 2^drop
                 low  == lo % u
                 up   == \/ 2 * low > u
                         \/ /\ 2 * low = u
                            /\ sticky \/ (lo \div u) % 2 = 1
                 lo2  == lo - low + (IF up THEN u ELSE 0)
                 hi2  == IF lo2 = 2^30 THEN hi + 1 ELSE hi
             IN  << IF hi2 = 2^30 THEN i + 1 ELSE i,
                    IF hi2 = 2^30 THEN 0 ELSE hi2,
                    IF lo2 = 2^30 THEN 0 ELSE lo2 >>

\* num / den of two ints (true division), den at most 100
FloatDiv(num, den) ==
    LET hi == Digits30(num % den, den)
        lo == Digits30(hi.r, den)
    IN  RoundFloat(num \div den, hi.q, lo.q, lo.r # 0)

\* n + f of an int and a float
FloatAdd(n, f) == RoundFloat(n + f[1], f[2], f[3], FALSE)

\* float(text) of a decimal text
RECURSIVE DigitsValue(_)
DigitsValue(digits) ==
    IF digits = <<>> THEN 0
    ELSE 10 * DigitsValue(SubSeq(digits, 1, Len(digits) - 1)) + digits[Len(digits)]

float(text) ==
    LET den == 10^Len(text.frac)
    IN  FloatDiv(text.int * den + DigitsValue(text.frac), den)

\* hours + minutes / 60
hm_to_hours(hours, minutes) == FloatAdd(hours, FloatDiv(minutes, 60))

\* A token 'Thu(00:00-12:00)' is [day |-> "thu", rng |-> <<0, 720>>], a token
\* 'Sat' is [day |-> "sat", rng |-> <<>>]; day is the token's day.lower()[:3].
RECURSIVE parse_day_time_filters(_)
parse_day_time_filters(tokens) ==
    IF tokens = <<>> THEN <<>>
    ELSE LET n     == Len(tokens)
             t     == tokens[n]
             before == parse_day_time_filters(SubSeq(tokens, 1, n - 1))
             win   == IF t.rng = <<>>
                      THEN [start |-> <<>>, end |-> <<>>]
                      ELSE [start |-> <<t.rng[1]>>, end |-> <<t.rng[2]>>]
         IN  [d \in (DOMAIN before) \cup {t.day} |->
                 IF d = t.day THEN win ELSE before[d]]

time_in_window_and(t, start, end) ==
    IF start = <<>> \/ end = <<>> THEN TRUE
    ELSE IF start[1] <= end[1] THEN start[1] <= t /\ t <= end[1]
    ELSE t >= start[1] /\ t <= end[1]

time_in_window(t, start, end) ==
    IF start = <<>> \/ end = <<>> THEN TRUE
    ELSE IF start[1] <= end[1] THEN start[1] <= t /\ t <= end[1]
    ELSE t >= start[1] \/ t <= end[1]

day_period(hour) == IF 6 <= hour /\ hour < 22 THEN "day" ELSE "night"

hours_between(dt1, dt2) == Abs(dt2 - dt1)

(***************************************************************************)
(* Day/time filter helpers                                                 *)
(***************************************************************************)
DEPART_DAY_FILTER == parse_day_time_filters(ARGS.filter_depart_days_time)

RETURN_DAY_FILTER == parse_day_time_filters(ARGS.filter_return_days_time)

depart_ok(dep_iso) ==
    IF DOMAIN DEPART_DAY_FILTER = {} THEN TRUE
    ELSE LET key == WeekdayKey(dep_iso)
         IN  IF key \notin DOMAIN DEPART_DAY_FILTER THEN FALSE
             ELSE time_in_window(TimeOf(dep_iso),
                                 DEPART_DAY_FILTER[key].start,
                                 DEPART_DAY_FILTER[key].end)

return_ok(dep_iso) ==
    IF DOMAIN RETURN_DAY_FILTER = {} THEN TRUE
    ELSE LET key == WeekdayKey(dep_iso)
         IN  IF key \notin DOMAIN RETURN_DAY_FILTER THEN FALSE
             ELSE time_in_window(TimeOf(dep_iso),
                                 RETURN_DAY_FILTER[key].start,
                                 RETURN_DAY_FILTER[key].end)

(***************************************************************************)
(* Stopover limits.  A limit is <<>> (float("inf")) or <<minutes>>.        *)
(***************************************************************************)
StopoverValues(kind) ==
    IF kind = "departure" THEN ARGS.max_departure_stopover
    ELSE ARGS.max_return_stopover

stop_limits(kind, hour) ==
    LET values == StopoverValues(kind)
    IN  IF values = <<>> THEN <<>>
        ELSE IF Len(values) = 1 THEN <<values[1]>>
        ELSE IF day_period(hour) = "day" THEN <<values[1]>> ELSE <<values[2]>>

\* wait_hr > limit
Exceeds(wait, limit) == limit # <<>> /\ wait > limit[1]

stopovers_ok_ge(itinerary, kind) ==
    LET segs == itinerary.segments
    IN  \A i \in 2..Len(segs) :
            LET prev_arr == segs[i - 1].arrival.at
                next_dep == segs[i].departure.at
                wait_hr  == hours_between(prev_arr, next_dep)
                limit    == stop_limits(kind, HourOf(prev_arr))
            IN  ~((limit # <<>> /\ wait_hr >= limit[1])
                  \/ Len(segs) - 1 > ARGS.max_stops)

\* The loop returns False at the first connection that fails and True when
\* none does.
stopovers_ok(itinerary, kind) ==
    LET segs == itinerary.segments
    IN  \A i \in 2..Len(segs) :
            LET prev_arr == segs[i - 1].arrival.at
                next_dep == segs[i].departure.at
                wait_hr  == hours_between(prev_arr, next_dep)
                limit    == stop_limits(kind, HourOf(prev_arr))
            IN  ~(Exceeds(wait_hr, limit) \/ Len(segs) - 1 > ARGS.max_stops)

(***************************************************************************)
(* Offer ranker                                                            *)
(*   An offer is [price |-> [total], itineraries], an itinerary            *)
(*   [duration, segments], a segment [departure |-> [iataCode, at],        *)
(*   arrival |-> [iataCode, at]].                                          *)
(*   A value of the sort key is a sequence of integers: <<i, hi, lo>> for  *)
(*   a float, <<minutes>> for a datetime.                                  *)
(***************************************************************************)
\* mapping[k] of key_fn
SortValue(offer, k) ==
    LET itin == offer.itineraries[1]
        segs == itin.segments
        last == offer.itineraries[Len(offer.itineraries)]
        hm   == iso_duration_to_hm(itin.duration)
    IN  CASE k = "price"          -> float(offer.price.total)
          [] k = "departure_date" -> <<segs[1].departure.at>>
          [] k = "duration"       -> hm_to_hours(hm[1], hm[2])
          [] k = "return_date"    -> <<last.segments[Len(last.segments)].arrival.at>>

key_fn(offer, sort_keys) ==
    [i \in 1..Len(sort_keys) |-> SortValue(offer, sort_keys[i])]

\* x < y of two floats, or of two datetimes
RECURSIVE ValueLess(_, _)
ValueLess(x, y) ==
    IF x = <<>> THEN FALSE
    ELSE IF x[1] # y[1] THEN x[1] < y[1]
    ELSE ValueLess(Tail(x), Tail(y))

\* Python's comparison of two tuples of the same length: a < b
RECURSIVE TupleLess(_, _)
TupleLess(a, b) ==
    IF a = <<>> THEN FALSE
    ELSE LET x == a[1]
             y == b[1]
         IN  IF x # y THEN ValueLess(x, y)
             ELSE TupleLess(Tail(a), Tail(b))

\* sorted() is stable: an element goes behind every element that is not greater
RECURSIVE InsertSorted(_, _, _)
InsertSorted(sortedSeq, offer, sort_keys) ==
    IF sortedSeq = <<>> THEN <<offer>>
    ELSE IF TupleLess(key_fn(offer, sort_keys), key_fn(sortedSeq[1], sort_keys))
         THEN <<offer>> \o sortedSeq
         ELSE <<sortedSeq[1]>> \o InsertSorted(Tail(sortedSeq), offer, sort_keys)

RECURSIVE sort_offers_unstable(_, _)
sort_offers_unstable(offers, sort_keys) ==
    IF offers = <<>> THEN <<>>
    ELSE LET n    == Len(offers)
             rest == sort_offers_unstable(SubSeq(offers, 1, n - 1), sort_keys)
             x    == offers[n]
             lo   == SelectSeq(rest, LAMBDA y :
                        TupleLess(key_fn(y, sort_keys), key_fn(x, sort_keys)))
             hi   == SelectSeq(rest, LAMBDA y :
                        ~TupleLess(key_fn(y, sort_keys), key_fn(x, sort_keys)))
         IN  lo \o <<x>> \o hi

RECURSIVE sort_offers(_, _)
sort_offers(offers, sort_keys) ==
    IF offers = <<>> THEN <<>>
    ELSE LET n == Len(offers)
         IN  InsertSorted(sort_offers(SubSeq(offers, 1, n - 1), sort_keys),
                          offers[n], sort_keys)

(***************************************************************************)
(* Date-pair generator                                                     *)
(*   A --max-stay token is [kind |-> "int", n |-> 7], [kind |-> "range",   *)
(*   a |-> 3, b |-> 4] or [kind |-> "bad"] (int() raises ValueError).      *)
(***************************************************************************)
StayTokenRaises(tokens) == \E i \in 1..Len(tokens) : tokens[i].kind = "bad"

StayNights(tokens) ==
    UNION { IF tokens[i].kind = "range" THEN tokens[i].a .. tokens[i].b
            ELSE {tokens[i].n} : i \in 1..Len(tokens) }

\* sorted(nights)
RECURSIVE SortedOf(_)
SortedOf(S) ==
    IF S = {} THEN <<>>
    ELSE LET m == CHOOSE x \in S : \A y \in S : x <= y
         IN  <<m>> \o SortedOf(S \ {m})

expand_stay_durations(tokens) == SortedOf(StayNights(tokens))

\* the two `continue` tests on a candidate return date
ReturnDateKept_exclusive(retd, return_start, return_end) ==
    /\ ~(return_start # <<>> /\ retd <= return_start[1])
    /\ ~(return_end # <<>> /\ retd >= return_end[1])

ReturnDateKept(retd, return_start, return_end) ==
    /\ ~(return_start # <<>> /\ retd < return_start[1])
    /\ ~(return_end # <<>> /\ retd > return_end[1])

\* the body of `for stay in ARGS.max_stay` of the depart-start/depart-end branch
RECURSIVE StayLoop(_, _, _, _)
StayLoop(start, stays, return_start, return_end) ==
    IF stays = <<>> THEN <<>>
    ELSE LET retd == start + stays[1]
             more == StayLoop(start, Tail(stays), return_start, return_end)
         IN  IF ReturnDateKept(retd, return_start, return_end)
             THEN <<<<start, retd>>>> \o more
             ELSE more

\* `while start <= end`
RECURSIVE RangePairs(_, _, _, _, _)
RangePairs(start, end, stays, return_start, return_end) ==
    IF start > end THEN <<>>
    ELSE StayLoop(start, stays, return_start, return_end)
         \o RangePairs(start + 1, end, stays, return_start, return_end)

(***************************************************************************)
(* The command line.  DefaultArgs holds argparse's defaults; the flags a   *)
(* run sets replace them.                                                  *)
(***************************************************************************)
DefaultArgs ==
    [ origins                        |-> <<"LHR">>,
      destinations                   |-> <<"EVN">>,
      depart                         |-> <<>>,
      ret                            |-> <<>>,
      depart_start                   |-> <<>>,
      depart_end                     |-> <<>>,
      return_start                   |-> <<>>,
      return_end                     |-> <<>>,
      max_stay                       |-> <<>>,
      range_length                   |-> <<>>,
      range_start                    |-> <<>>,
      filter_depart_days_time        |-> <<>>,
      filter_return_days_time        |-> <<>>,
      max_departure_stopover         |-> <<>>,
      max_return_stopover            |-> <<>>,
      max_stops                      |-> 1,
      max_results                    |-> 5,
      one_way                        |-> FALSE,
      allow_different_return_airport |-> FALSE,
      sort_by  |-> <<"price", "departure_date", "duration", "return_date">> ]

\* the state of run_search's variables before run_search has touched them
NothingRun ==
    /\ date_pairs = <<>>
    /\ oi = 1 /\ di = 1 /\ pi = 1
    /\ http = [n |-> 0, last |-> "none"]
    /\ calls = <<>>
    /\ ALL_MATCHES = <<>>
    /\ handed = <<>>
    /\ out = <<>>
    /\ shown = {}
    /\ retEval = FALSE

Untouched == fault = "none" /\ NothingRun

\* the file as it stands: Python rejects it before any statement runs
NotCompiled ==
    /\ ARGS = DefaultArgs
    /\ probe = ARGS
    /\ pc = "crashed"
    /\ fault = "IndentationError"
    /\ verdict = <<>>
    /\ NothingRun

(***************************************************************************)
(* make_date_pairs, the first step of run_search (after the token fetch,   *)
(* which the model leaves out).                                            *)
(***************************************************************************)
make_date_pairs ==
    /\ pc = "start"
    /\ LET given  == ARGS.max_stay # <<>>
           raises == given /\ StayTokenRaises(ARGS.max_stay)
           stays  == IF given /\ ~raises
                     THEN expand_stay_durations(ARGS.max_stay) ELSE <<>>
           branch == IF raises THEN "exit"
                     ELSE IF ARGS.range_length # <<>> /\ stays # <<>>
                          THEN "rolling"
                     ELSE IF /\ ARGS.depart_start # <<>>
                             /\ ARGS.depart_end # <<>>
                             /\ stays # <<>>
                          THEN "range"
                     ELSE IF ARGS.depart # <<>> /\ ARGS.ret # <<>>
                          THEN "fixed"
                     ELSE "exit"
           pairs  == CASE branch = "range" ->
                            RangePairs(ARGS.depart_start[1], ARGS.depart_end[1],
                                       stays, ARGS.return_start, ARGS.return_end)
                       [] branch = "fixed" -> << <<ARGS.depart[1], ARGS.ret[1]>> >>
                       [] OTHER -> <<>>
       IN  /\ ARGS' = IF raises THEN ARGS ELSE [ARGS EXCEPT !.max_stay = stays]
           /\ date_pairs' = pairs
           \* parse_range_length is defined nowhere: the call raises NameError
           /\ pc' = CASE branch = "exit"    -> "exited"
                      [] branch = "rolling" -> "crashed"
                      [] pairs = <<>>       -> "final"
                      [] OTHER              -> "sweep"
           /\ fault' = CASE branch = "exit"    -> "SystemExit"
                         [] branch = "rolling" -> "NameError"
                         [] OTHER              -> "none"
    /\ UNCHANGED <<oi, di, pi, http, calls, ALL_MATCHES, handed, out, shown,
                   retEval, probe, verdict>>

(***************************************************************************)
(* Functions exercised alone: the state holds the input in probe, and one  *)
(* step calls the function and stores its result in verdict.               *)
(***************************************************************************)
ProbeDepartOk ==
    /\ pc = "probe_filter"
    /\ verdict = <<>>
    /\ verdict' = <<"depart_ok", depart_ok(probe)>>
    /\ UNCHANGED <<ARGS, pc, fault, date_pairs, oi, di, pi, http, calls,
                   ALL_MATCHES, handed, out, shown, retEval, probe>>

ProbeReturnOk ==
    /\ pc = "probe_filter"
    /\ verdict = <<>>
    /\ verdict' = <<"return_ok", return_ok(probe)>>
    /\ UNCHANGED <<ARGS, pc, fault, date_pairs, oi, di, pi, http, calls,
                   ALL_MATCHES, handed, out, shown, retEval, probe>>

ProbeStopovers ==
    /\ pc = "probe_stopovers"
    /\ verdict = <<>>
    /\ \E kind \in {"departure", "return"} :
           verdict' = <<kind, stopovers_ok(probe, kind)>>
    /\ UNCHANGED <<ARGS, pc, fault, date_pairs, oi, di, pi, http, calls,
                   ALL_MATCHES, handed, out, shown, retEval, probe>>

(***************************************************************************)
(* Inputs of the day/time filter                                           *)
(***************************************************************************)
AnyTime(day) == [day |-> day, rng |-> <<>>]

Window(day, from, to) == [day |-> day, rng |-> <<from, to>>]

FilterTokens ==
    { <<>>,
      <<AnyTime("thu")>>,
      <<Window("thu", At(0, 0, 0), At(0, 12, 0)), AnyTime("sat")>>,
      <<Window("fri", At(0, 22, 0), At(0, 2, 0))>>,
      <<Window("mon", At(0, 10, 0), At(0, 10, 0)), AnyTime("sun")>>,
      <<AnyTime("sun"), Window("sun", At(0, 6, 0), At(0, 23, 59))>> }

MaxDay == 7

ProbeClock ==
    { At(0, 0, 0), At(0, 1, 0), At(0, 2, 0), At(0, 2, 1), At(0, 5, 59),
      At(0, 6, 0), At(0, 10, 0), At(0, 12, 0), At(0, 12, 1), At(0, 21, 59),
      At(0, 22, 0), At(0, 23, 30), At(0, 23, 59) }

ProbeTimes == { At(d, 0, 0) + t : d \in 0..MaxDay, t \in ProbeClock }

InitFilter ==
    /\ ARGS \in { [DefaultArgs EXCEPT !.filter_depart_days_time = f,
                                      !.filter_return_days_time = g] :
                  f \in FilterTokens, g \in FilterTokens }
    /\ probe \in ProbeTimes
    /\ pc = "probe_filter"
    /\ verdict = <<>>
    /\ Untouched

NextFilter == ProbeDepartOk \/ ProbeReturnOk

SpecFilter == InitFilter /\ [][NextFilter]_vars

(***************************************************************************)
(* Inputs of the stopover evaluator                                        *)
(***************************************************************************)
Seg(from, depAt, to, arrAt) ==
    [ departure |-> [iataCode |-> from, at |-> depAt],
      arrival   |-> [iataCode |-> to,   at |-> arrAt] ]

Airports == <<"LHR", "VIE", "IST", "TBS", "EVN", "DOH">>

MaxSegs == 3

FirstArrivals == { At(3, 5, 59), At(3, 6, 0), At(3, 21, 59), At(3, 22, 0) }

Waits == { 59, 60, 61, 120, 121, 480 }

RECURSIVE Chains(_)
Chains(k) ==
    IF k = 1
    THEN { <<Seg(Airports[1], At(3, 4, 0), Airports[2], a)>> : a \in FirstArrivals }
    ELSE { Append(c, Seg(Airports[k], c[k - 1].arrival.at + w,
                         Airports[k + 1], c[k - 1].arrival.at + w + 90)) :
           c \in Chains(k - 1), w \in Waits }

ProbeItineraries ==
    { [duration |-> [H |-> <<5>>, M |-> <<>>], segments |-> c] :
      c \in UNION { Chains(k) : k \in 1..MaxSegs } }

LimitValues == { <<>>, <<120>>, <<120, 60>>, <<60, 480>> }

MaxStopsBound == 2

InitStopovers ==
    /\ ARGS \in { [DefaultArgs EXCEPT !.max_departure_stopover = a,
                                      !.max_return_stopover = b,
                                      !.max_stops = m] :
                  a \in LimitValues, b \in {<<>>, <<60>>},
                  m \in -1..MaxStopsBound }
    /\ probe \in ProbeItineraries
    /\ pc = "probe_stopovers"
    /\ verdict = <<>>
    /\ Untouched

NextStopovers == ProbeStopovers

SpecStopovers == InitStopovers /\ [][NextStopovers]_vars

(***************************************************************************)
(* Inputs of the date-pair generator                                       *)
(***************************************************************************)
IntTok(n) == [kind |-> "int", n |-> n]

RangeTok(a, b) == [kind |-> "range", a |-> a, b |-> b]

BadTok == [kind |-> "bad"]

MaxStay == 5

StayTokens ==
    { <<>>,
      <<IntTok(3)>>,
      <<IntTok(0), IntTok(MaxStay)>>,
      <<RangeTok(3, 4), IntTok(MaxStay)>>,
      <<IntTok(MaxStay), RangeTok(3, 4), IntTok(3)>>,
      <<RangeTok(MaxStay, 3)>>,
      <<IntTok(3), BadTok>> }

MaxDepartDay == 3

Optional(S) == {<<>>} \cup { <<x>> : x \in S }

InitDates ==
    /\ ARGS \in { [DefaultArgs EXCEPT !.max_stay = st,
                                      !.range_length = rl,
                                      !.range_start = rs,
                                      !.depart_start = ds,
                                      !.depart_end = de,
                                      !.return_start = r1,
                                      !.return_end = r2,
                                      !.depart = dp,
                                      !.ret = rt] :
                  st \in StayTokens,
                  rl \in Optional({[weeks |-> 0, days |-> 2]}),
                  rs \in Optional({1}),
                  ds \in Optional(1..2),
                  de \in Optional(1..MaxDepartDay),
                  r1 \in Optional({5}),
                  r2 \in Optional({6}),
                  dp \in Optional({1}),
                  rt \in Optional({4}) }
    /\ probe = ARGS
    /\ pc = "start"
    /\ verdict = <<>>
    /\ Untouched

NextDates == make_date_pairs

SpecDates == InitDates /\ [][NextDates]_vars

(***************************************************************************)
(* Presenter: display_offers                                               *)
(*   The state of one call is [seen, out, fault, retEval]: the seen set,   *)
(*   what has been printed (a "return_preview" event for lines 406-416, an *)
(*   "offer" event for the block of lines 439-470), the exception that     *)
(*   ended the call if any, and whether return_ok has been evaluated.      *)
(***************************************************************************)
LastOf(seq) == seq[Len(seq)]

\* line 428: (outbound departure "at", inbound departure "at" or None, price),
\* price being the text of price.total
SeenKey(offer) ==
    << offer.itineraries[1].segments[1].departure.at,
       IF ARGS.one_way THEN <<>>
       ELSE <<LastOf(offer.itineraries).segments[1].departure.at>>,
       offer.price.total >>

AlreadySeen_never(key, seen) == FALSE

\* line 429: key in seen
AlreadySeen(key, seen) == key \in seen

DisplayOne(d, offer) ==
    IF d.fault # "none" THEN d
    ELSE
    LET to_itin   == offer.itineraries[1]
        from_itin == LastOf(offer.itineraries)
        dep_seg   == to_itin.segments[1]
        to_arr    == LastOf(to_itin.segments).arrival.iataCode
        from_arr  == LastOf(from_itin.segments).arrival.iataCode
        previewed == IF ARGS.one_way THEN d
                     ELSE [d EXCEPT !.out = Append(@, [kind  |-> "return_preview",
                                                       offer |-> offer]),
                                    !.retEval = TRUE]
        key       == SeenKey(offer)
    IN  IF ~depart_ok(dep_seg.departure.at) THEN d
        ELSE IF /\ ~ARGS.one_way
                /\ ~ARGS.allow_different_return_airport
                /\ to_arr # from_arr
             THEN d
        ELSE IF ~ARGS.one_way /\ ~return_ok(from_itin.segments[1].departure.at)
             THEN previewed
        ELSE IF \/ ~stopovers_ok(to_itin, "departure")
                \/ ~stopovers_ok(from_itin, "return")
             THEN previewed
        ELSE IF AlreadySeen(key, previewed.seen) THEN previewed
        \* line 437 subscripts ret_seg, which is None in one-way mode
        ELSE IF ARGS.one_way
             THEN [previewed EXCEPT !.seen = @ \cup {key}, !.fault = "TypeError"]
        ELSE [previewed EXCEPT !.seen = @ \cup {key},
                               !.out = Append(@, [kind  |-> "offer",
                                                  offer |-> offer])]

RECURSIVE DisplayLoop(_, _)
DisplayLoop(d, offers) ==
    IF offers = <<>> THEN d
    ELSE DisplayLoop(DisplayOne(d, offers[1]), Tail(offers))

\* seen starts empty at every call
display_offers(offers) ==
    DisplayLoop([seen |-> {}, out |-> <<>>, fault |-> "none", retEval |-> FALSE],
                offers)

\* the offers a call's output shows in full
RECURSIVE OffersPrinted(_)
OffersPrinted(events) ==
    IF events = <<>> THEN <<>>
    ELSE (IF events[1].kind = "offer" THEN <<events[1].offer>> ELSE <<>>)
         \o OffersPrinted(Tail(events))

(***************************************************************************)
(* Search driver: run_search and call_amadeus                              *)
(***************************************************************************)
\* range(3) of the retry loop
MaxAttempts == 3

RetryAgain_one_more(n) == n < MaxAttempts

\* after the n-th request was answered 429: does the for loop send another?
RetryAgain(n) == n < MaxAttempts - 1

PreCheckOk_return_always(d_date, r_date) ==
    depart_ok(NoonOf(d_date)) /\ return_ok(NoonOf(r_date))

\* lines 324-327
PreCheckOk(d_date, r_date) ==
    /\ depart_ok(NoonOf(d_date))
    /\ ARGS.one_way \/ return_ok(NoonOf(r_date))

\* the three nested for loops: the position after (oi, di, pi)
NextPos ==
    IF pi < Len(date_pairs)
    THEN [oi |-> oi, di |-> di, pi |-> pi + 1, over |-> FALSE]
    ELSE IF di < Len(ARGS.destinations)
    THEN [oi |-> oi, di |-> di + 1, pi |-> 1, over |-> FALSE]
    ELSE IF oi < Len(ARGS.origins)
    THEN [oi |-> oi + 1, di |-> 1, pi |-> 1, over |-> FALSE]
    ELSE [oi |-> oi, di |-> di, pi |-> pi, over |-> TRUE]

\* `continue`: on to the next combination, or out of the loops
Continue ==
    /\ oi' = NextPos.oi
    /\ di' = NextPos.di
    /\ pi' = NextPos.pi
    /\ pc' = IF NextPos.over THEN "final" ELSE "sweep"

\* the pre-check rejects the combination: no query
SkipCombination ==
    /\ pc = "sweep"
    /\ ~PreCheckOk(date_pairs[pi][1], date_pairs[pi][2])
    /\ retEval' = (retEval \/ (depart_ok(NoonOf(date_pairs[pi][1])) /\ ~ARGS.one_way))
    /\ Continue
    /\ UNCHANGED <<ARGS, fault, date_pairs, http, calls, ALL_MATCHES, handed,
                   out, shown, probe, verdict>>

\* the pre-check accepts it: call_amadeus is entered
StartQuery ==
    /\ pc = "sweep"
    /\ PreCheckOk(date_pairs[pi][1], date_pairs[pi][2])
    /\ retEval' = (retEval \/ ~ARGS.one_way)
    /\ pc' = "call"
    /\ http' = [n |-> 0, last |-> "none"]
    /\ calls' = Append(calls, << ARGS.origins[oi], ARGS.destinations[di],
                                 date_pairs[pi][1], date_pairs[pi][2] >>)
    /\ UNCHANGED <<ARGS, fault, date_pairs, oi, di, pi, ALL_MATCHES, handed,
                   out, shown, probe, verdict>>

\* requests.get answers 429: sleep and go round the loop, whose `else` returns
\* None once range(3) is used up; run_search then continues
RateLimited ==
    /\ pc = "call"
    /\ http' = [n |-> http.n + 1, last |-> "429"]
    /\ IF RetryAgain(http.n)
       THEN UNCHANGED <<pc, oi, di, pi>>
       ELSE Continue
    /\ UNCHANGED <<ARGS, fault, date_pairs, calls, ALL_MATCHES, handed, out,
                   shown, retEval, probe, verdict>>

\* any other status than 200 and 429: call_amadeus prints rsp.json() and
\* returns []; rsp.json() raises JSONDecodeError when the body of the error
\* answer is not JSON
ProviderError ==
    /\ pc = "call"
    /\ http' = [n |-> http.n + 1, last |-> "error"]
    /\ \E body_is_json \in BOOLEAN :
           IF body_is_json
           THEN /\ Continue
                /\ UNCHANGED fault
           ELSE /\ pc' = "crashed"
                /\ fault' = "JSONDecodeError"
                /\ UNCHANGED <<oi, di, pi>>
    /\ UNCHANGED <<ARGS, date_pairs, calls, ALL_MATCHES, handed, out,
                   shown, retEval, probe, verdict>>

\* what the provider may answer
Itin(duration, segments) == [duration |-> duration, segments |-> segments]

PT(h, m) == [H |-> h, M |-> m]

OutDirect ==
    Itin(PT(<<5>>, <<37>>), <<Seg("LHR", At(3, 10, 0), "EVN", At(3, 17, 0))>>)

\* the same flight, its duration written in minutes: 337 / 60 and 5 + 37 / 60
\* are two different floats
OutDirectInMinutes ==
    Itin(PT(<<>>, <<337>>), <<Seg("LHR", At(3, 10, 0), "EVN", At(3, 17, 0))>>)

OutOneStop ==
    Itin(PT(<<7>>, <<30>>), << Seg("LHR", At(3, 10, 0), "VIE", At(3, 12, 0)),
                               Seg("VIE", At(3, 13, 0), "EVN", At(3, 18, 30)) >>)

OutLate ==
    Itin(PT(<<>>, <<290>>), <<Seg("LHR", At(3, 23, 0), "EVN", At(4, 5, 50))>>)

OutLongWait ==
    Itin(PT(<<9>>, <<>>), << Seg("LHR", At(3, 9, 0), "IST", At(3, 12, 0)),
                             Seg("IST", At(3, 17, 0), "EVN", At(3, 20, 0)) >>)

OutEarly ==
    Itin(PT(<<4>>, <<50>>), <<Seg("LGW", At(3, 9, 0), "EVN", At(3, 15, 50))>>)

InDirect ==
    Itin(PT(<<5>>, <<>>), <<Seg("EVN", At(6, 15, 0), "LHR", At(6, 18, 0))>>)

Decimal(int, frac) == [int |-> int, frac |-> frac]

Offer(total, itineraries) ==
    [price |-> [total |-> total], itineraries |-> itineraries]

\* "100.00" and "100.0" are one amount in two texts
Catalog ==
    { Offer(Decimal(100, <<0, 0>>), <<OutDirect, InDirect>>),
      Offer(Decimal(100, <<0>>),    <<OutDirectInMinutes, InDirect>>),
      Offer(Decimal(100, <<0, 0>>), <<OutOneStop, InDirect>>),
      Offer(Decimal(80, <<1, 0>>),  <<OutLate, InDirect>>),
      Offer(Decimal(90, <<0, 0>>),  <<OutLongWait, InDirect>>),
      Offer(Decimal(70, <<0, 0>>),  <<OutEarly>>) }

\* rsp.json()["data"]: at most "max" = ARGS.max_results offers; a negative
\* "max" is no bound the provider can keep to
Responses ==
    { r \in {<<>>} \cup { <<a>> : a \in Catalog }
                   \cup { <<a, b>> : a \in Catalog, b \in Catalog } :
      ARGS.max_results >= 0 => Len(r) <= ARGS.max_results }

\* the model stops the provider from sending offers beyond this many in all
MaxMatches == 3

\* status 200: call_amadeus returns the sorted offers; run_search shows the
\* best one and extends ALL_MATCHES with all of them
OffersReceived ==
    /\ pc = "call"
    /\ \E data \in Responses :
         /\ Len(ALL_MATCHES) + Len(data) <= MaxMatches
         /\ LET offers == sort_offers(data, ARGS.sort_by)
            IN  IF offers = <<>>
                THEN /\ Continue
                     /\ UNCHANGED <<fault, ALL_MATCHES, handed, out, shown, retEval>>
                ELSE LET sorted_offers == sort_offers(offers, ARGS.sort_by)
                         best_offer    == sorted_offers[1]
                         d             == display_offers(<<best_offer>>)
                     IN  /\ handed' = <<best_offer>>
                         /\ out' = d.out
                         /\ shown' = shown \cup
                               { OffersPrinted(out)[k] : k \in 1..Len(OffersPrinted(out)) }
                         /\ retEval' = (retEval \/ d.retEval)
                         /\ fault' = d.fault
                         /\ IF d.fault # "none"
                            THEN /\ pc' = "crashed"
                                 /\ UNCHANGED <<oi, di, pi, ALL_MATCHES>>
                            ELSE /\ ALL_MATCHES' = ALL_MATCHES \o offers
                                 /\ Continue
    /\ http' = [n |-> http.n + 1, last |-> "200"]
    /\ UNCHANGED <<ARGS, date_pairs, calls, probe, verdict>>

\* lines 341-343: the final summary
FinalSummary ==
    /\ pc = "final"
    /\ LET ranked == sort_offers(ALL_MATCHES, ARGS.sort_by)
           top    == SliceTo(ranked, ARGS.max_results)
           d      == display_offers(top)
       IN  /\ handed' = top
           /\ out' = d.out
           /\ shown' = shown \cup
                 { OffersPrinted(out)[k] : k \in 1..Len(OffersPrinted(out)) }
           /\ retEval' = (retEval \/ d.retEval)
           /\ fault' = d.fault
           /\ pc' = IF d.fault # "none" THEN "crashed" ELSE "done"
    /\ UNCHANGED <<ARGS, date_pairs, oi, di, pi, http, calls, ALL_MATCHES,
                   probe, verdict>>

(***************************************************************************)
(* The command lines of the search driver                                  *)
(***************************************************************************)
FilterDepart == <<Window("thu", At(0, 0, 0), At(0, 12, 0))>>

FilterReturn == <<AnyTime("sun")>>

SortDefault == <<"price", "departure_date", "duration", "return_date">>

\* the flags of a run: --to, --filter-depart-days-time,
\* --filter-return-days-time, --max-results, --one-way,
\* --allow-different-return-airport, --sort-by
Flags(to, fd, fr, n, ow, ad, sk) ==
    [to |-> to, fd |-> fd, fr |-> fr, n |-> n, ow |-> ow, ad |-> ad, sk |-> sk]

CommandLines ==
    { Flags(<<"EVN">>, FilterDepart, <<>>, 2, FALSE, TRUE, <<"price">>),
      Flags(<<"EVN">>, <<>>, FilterReturn, -1, FALSE, TRUE, SortDefault),
      Flags(<<"EVN", "TBS">>, <<>>, FilterReturn, 1, FALSE, TRUE, SortDefault),
      Flags(<<"EVN">>, FilterDepart, <<>>, 2, FALSE, FALSE, SortDefault),
      Flags(<<"EVN", "TBS">>, <<>>, FilterReturn, 1, TRUE, FALSE, <<"price">>),
      Flags(<<"EVN">>, FilterDepart, <<>>, 2, TRUE, TRUE, SortDefault) }

Started ==
    /\ ARGS \in { [DefaultArgs EXCEPT
                      !.origins = <<"LHR", "LGW">>,
                      !.destinations = c.to,
                      !.depart_start = <<3>>,
                      !.depart_end = <<4>>,
                      !.max_stay = <<IntTok(3)>>,
                      !.filter_depart_days_time = c.fd,
                      !.filter_return_days_time = c.fr,
                      !.max_departure_stopover = <<120, 60>>,
                      !.max_results = c.n,
                      !.one_way = c.ow,
                      !.allow_different_return_airport = c.ad,
                      !.sort_by = c.sk] : c \in CommandLines }
    /\ probe = ARGS
    /\ pc = "start"
    /\ verdict = <<>>
    /\ Untouched

Init == NotCompiled \/ Started

Next ==
    \/ make_date_pairs
    \/ SkipCombination
    \/ StartQuery
    \/ RateLimited
    \/ ProviderError
    \/ OffersReceived
    \/ FinalSummary

Spec == Init /\ [][Next]_vars

(***************************************************************************)
(* Vocabulary of the claims about the driver                               *)
(***************************************************************************)
TotalCombos == Len(ARGS.origins) * Len(ARGS.destinations) * Len(date_pairs)

\* the rank of the loops' position in the nested order origins, destinations,
\* date pairs
PosIndex ==
    ((oi - 1) * Len(ARGS.destinations) + (di - 1)) * Len(date_pairs) + pi

\* the k-th combination of that order
ComboAt(k) ==
    LET P == Len(date_pairs)
        D == Len(ARGS.destinations)
    IN  << ARGS.origins[((k - 1) \div (D * P)) + 1],
           ARGS.destinations[(((k - 1) \div P) % D) + 1],
           date_pairs[((k - 1) % P) + 1][1],
           date_pairs[((k - 1) % P) + 1][2] >>

\* how many combinations the loops have dealt with (the one being queried
\* included)
Visited ==
    CASE pc = "sweep" -> PosIndex - 1
      [] pc = "call"  -> PosIndex
      [] OTHER        -> TotalCombos

Sweeping == pc \in {"sweep", "call", "final", "done"}

IsPrefix(a, b) == Len(a) <= Len(b) /\ SubSeq(b, 1, Len(a)) = a

\* the filters of the presenter on one offer
ClaimDisplayable(offer) ==
    LET to_itin   == offer.itineraries[1]
        from_itin == LastOf(offer.itineraries)
    IN  /\ depart_ok(to_itin.segments[1].departure.at)
        /\ ARGS.one_way
           \/ /\ \/ ARGS.allow_different_return_airport
                 \/ LastOf(to_itin.segments).arrival.iataCode
                      = LastOf(from_itin.segments).arrival.iataCode
              /\ return_ok(from_itin.segments[1].departure.at)
        /\ stopovers_ok(to_itin, "departure")
        /\ stopovers_ok(from_itin, "return")

(***************************************************************************)
(* C1  A 429 answer makes call_amadeus repeat the request, three requests  *)
(* at most for one query (the loop is range(3)); when the third is         *)
(* answered 429 too, the query is given up without offers and run_search   *)
(* goes on with the next combination: the process does not end.            *)
(***************************************************************************)
\* C1: at most three requests per query; the third 429 gives the query up and
\* the sweep goes on with the next combination
C1_RetryThenSkip ==
    [][ (pc = "call" /\ http'.n = http.n + 1 /\ http'.last = "429") =>
          /\ http'.n <= 3
          /\ http'.n < 3 =>
                /\ pc' = "call"
                /\ <<oi', di', pi'>> = <<oi, di, pi>>
          /\ http'.n = 3 =>
                /\ fault' = "none"
                /\ ALL_MATCHES' = ALL_MATCHES
                /\ out' = out /\ handed' = handed
                /\ calls' = calls
                /\ IF PosIndex < TotalCombos
                   THEN pc' = "sweep" /\ PosIndex' = PosIndex + 1
                   ELSE pc' = "final"
      ]_vars

\* the first query was given up after three 429 answers; the sweep stands at
\* the second combination
C1_Witness ==
    /\ pc = "sweep"
    /\ http = [n |-> 3, last |-> "429"]
    /\ PosIndex = 2
    /\ Len(calls) = 1

(***************************************************************************)
(* C2  The queries handed to the API client are exactly the combinations   *)
(* whose intended departure date at noon passes the departure filter and   *)
(* (unless one-way) whose intended return date at noon passes the return   *)
(* filter, each once, in the nested order origins, destinations, date      *)
(* pairs; a rejected combination causes no call.                           *)
(***************************************************************************)
ClaimPreAccepts(c) ==
    /\ depart_ok(At(c[3], 12, 0))
    /\ ARGS.one_way \/ return_ok(At(c[4], 12, 0))

\* C2: the calls made are the visited combinations the pre-check accepts, each
\* once, in nested order
C2_QueriesIssued ==
    Sweeping =>
        calls = SelectSeq([k \in 1..Visited |-> ComboAt(k)], ClaimPreAccepts)

\* a round-trip sweep over two origins has ended with some combinations
\* queried and some skipped
C2_Witness ==
    /\ pc = "done"
    /\ ~ARGS.one_way
    /\ Len(calls) >= 2
    /\ Len(calls) < TotalCombos
    /\ calls[1][1] # calls[Len(calls)][1]

(***************************************************************************)
(* C3  In one-way mode return_ok is never evaluated and no offer is        *)
(* rejected or faults because of inbound itinerary data.                   *)
(***************************************************************************)
\* C3: one-way mode never evaluates return_ok and never faults on the absent
\* inbound data
C3_OneWayNoInbound ==
    ARGS.one_way => (~retEval /\ fault # "TypeError")

(***************************************************************************)
(* C4  Every offer held in ALL_MATCHES passed the per-query filtering (the *)
(* outbound and inbound day/time filters and the stopover checks).         *)
(* (That the accumulator only grows holds: it is only ever extended.)      *)
(***************************************************************************)
ClaimPassesFilters(offer) ==
    LET to_itin   == offer.itineraries[1]
        from_itin == LastOf(offer.itineraries)
    IN  /\ depart_ok(to_itin.segments[1].departure.at)
        /\ ARGS.one_way \/ return_ok(from_itin.segments[1].departure.at)
        /\ stopovers_ok(to_itin, "departure")
        /\ ARGS.one_way \/ stopovers_ok(from_itin, "return")

\* C4: every accumulated offer passed the per-query filtering
C4_AccumulatorFiltered ==
    \A i \in 1..Len(ALL_MATCHES) : ClaimPassesFilters(ALL_MATCHES[i])

(***************************************************************************)
(* C5  The final presentation is handed the first N (N = max_results)      *)
(* offers of ALL_MATCHES sorted ascending by the composite key of sort_by, *)
(* offers of equal key in their accumulation order; no more than N offers  *)
(* are displayed.  (The list is cut by the slice [:N], which for a         *)
(* negative N drops the last -N offers instead.)                           *)
(***************************************************************************)
\* offer x comes strictly before offer y in the composite order
ClaimBefore(x, y) ==
    LET differ == { i \in 1..Len(ARGS.sort_by) :
                      SortValue(x, ARGS.sort_by[i]) # SortValue(y, ARGS.sort_by[i]) }
    IN  /\ differ # {}
        /\ LET k == ARGS.sort_by[CHOOSE i \in differ : \A j \in differ : i <= j]
           IN  ValueLess(SortValue(x, k), SortValue(y, k))

\* the place of ALL_MATCHES[i] in the stable ascending order
ClaimRank(i) ==
    1 + Cardinality({ j \in 1..Len(ALL_MATCHES) :
            \/ ClaimBefore(ALL_MATCHES[j], ALL_MATCHES[i])
            \/ /\ j < i
               /\ ~ClaimBefore(ALL_MATCHES[i], ALL_MATCHES[j]) })

\* C5 as stated: whatever N is, the final call is handed the first N offers
\* of the stable ascending order of ALL_MATCHES, and prints at most N
C5_AsStated ==
    pc = "done" =>
        /\ Len(handed) = Max(0, Min(ARGS.max_results, Len(ALL_MATCHES)))
        /\ \A i \in 1..Len(ALL_MATCHES) :
               LET r == ClaimRank(i)
               IN  r <= ARGS.max_results => handed[r] = ALL_MATCHES[i]
        /\ Len(OffersPrinted(out)) <= Max(0, ARGS.max_results)

\* the number of offers the slice [:N] keeps of a list of the accumulator's
\* length: N counts from the end when it is negative
ClaimKept ==
    IF ARGS.max_results >= 0
    THEN Min(ARGS.max_results, Len(ALL_MATCHES))
    ELSE Max(Len(ALL_MATCHES) + ARGS.max_results, 0)

\* C5 as amended: for N >= 0 the final call is handed the first N offers of
\* the stable ascending order of ALL_MATCHES and prints at most N; for N < 0
\* it is handed all of that order but its last -N offers
C5_GlobalTopN ==
    pc = "done" =>
        /\ Len(handed) = ClaimKept
        /\ \A i \in 1..Len(ALL_MATCHES) :
               LET r == ClaimRank(i)
               IN  r <= ClaimKept => handed[r] = ALL_MATCHES[i]
        /\ Len(OffersPrinted(out)) <= ClaimKept

\* more offers than N were accumulated, two different ones of equal key among
\* them, and the ranking changed their order
C5_Witness ==
    /\ pc = "done"
    /\ ARGS.sort_by = <<"price">>
    /\ Len(ALL_MATCHES) > ARGS.max_results
    /\ handed # SubSeq(ALL_MATCHES, 1, ARGS.max_results)
    /\ \E i, j \in 1..Len(ALL_MATCHES) :
           /\ i < j
           /\ ALL_MATCHES[i] # ALL_MATCHES[j]
           /\ float(ALL_MATCHES[i].price.total) = float(ALL_MATCHES[j].price.total)
    /\ OffersPrinted(out) # <<>>

(***************************************************************************)
(* C10  Within one display_offers call no two displayed offers share the   *)
(* SeenKey: of the filter-passing offers of equal key only the first in    *)
(* input order is displayed; the seen set starts empty at every call, so   *)
(* an offer shown by an earlier call is shown again by a later one.        *)
(***************************************************************************)
\* the places of the offers handed to the call that pass the filters and are
\* the first of their key to do so
ClaimFirstOfKey ==
    { i \in 1..Len(handed) :
        /\ ClaimDisplayable(handed[i])
        /\ \A j \in 1..(i - 1) :
               ClaimDisplayable(handed[j]) => SeenKey(handed[j]) # SeenKey(handed[i]) }

\* C10: a call prints exactly the filter-passing offers that are the first of
\* their SeenKey, so no two printed offers share a key
C10_DedupPerCall ==
    Sweeping =>
        LET printed == OffersPrinted(out)
        IN  /\ \A i, j \in 1..Len(printed) :
                   i < j => SeenKey(printed[i]) # SeenKey(printed[j])
            /\ Len(printed) = Cardinality(ClaimFirstOfKey)
            /\ \A i \in ClaimFirstOfKey :
                   printed[Cardinality({ j \in ClaimFirstOfKey : j <= i })] = handed[i]

\* the final call was handed two different filter-passing offers of equal key
\* and displayed the first only, which an earlier call had displayed already
C10_Witness ==
    /\ pc = "done"
    /\ Len(handed) = 2
    /\ handed[1] # handed[2]
    /\ SeenKey(handed[1]) = SeenKey(handed[2])
    /\ ClaimDisplayable(handed[1]) /\ ClaimDisplayable(handed[2])
    /\ OffersPrinted(out) = <<handed[1]>>
    /\ handed[1] \in shown

(***************************************************************************)
(* C7  The day/time filter (depart_ok, return_ok) accepts a timestamp if   *)
(* and only if the filter map is empty, or the timestamp's weekday is a    *)
(* key of the map and a bound is absent, or start <= end and the time of   *)
(* day lies in [start, end], or start > end and the time of day lies in    *)
(* [start, 24:00) or [00:00, end].                                         *)
(***************************************************************************)
ClaimAccepts(filterMap, ts) ==
    \/ DOMAIN filterMap = {}
    \/ /\ WeekdayKey(ts) \in DOMAIN filterMap
       /\ LET w == filterMap[WeekdayKey(ts)]
              t == TimeOf(ts)
          IN  \/ w.start = <<>>
              \/ w.end = <<>>
              \/ /\ w.start[1] <= w.end[1]
                 /\ w.start[1] <= t /\ t <= w.end[1]
              \/ /\ w.start[1] > w.end[1]
                 /\ \/ w.start[1] <= t /\ t < At(1, 0, 0)
                    \/ 0 <= t /\ t <= w.end[1]

\* C7: depart_ok and return_ok accept exactly the timestamps the claim describes
C7_DayTimeFilter ==
    (pc = "probe_filter" /\ verdict # <<>>) =>
        verdict[2] = ClaimAccepts(IF verdict[1] = "depart_ok"
                                  THEN DEPART_DAY_FILTER
                                  ELSE RETURN_DAY_FILTER, probe)

\* an overnight window (22:00-02:00) has accepted a time after midnight
C7_Witness ==
    /\ pc = "probe_filter"
    /\ verdict = <<"depart_ok", TRUE>>
    /\ WeekdayKey(probe) = "fri"
    /\ "fri" \in DOMAIN DEPART_DAY_FILTER
    /\ DEPART_DAY_FILTER["fri"].start # <<>>
    /\ DEPART_DAY_FILTER["fri"].start[1] > DEPART_DAY_FILTER["fri"].end[1]
    /\ TimeOf(probe) = At(0, 1, 0)

(***************************************************************************)
(* C6  stopovers_ok rejects an itinerary if and only if some wait between  *)
(* consecutive segments is strictly greater than the limit of that         *)
(* connection's hour of day (no value: unbounded; one value: that value;   *)
(* two values: the first in [6,22), the second otherwise), or the number   *)
(* of connections exceeds the maximum-stops bound.                         *)
(***************************************************************************)
ClaimLimit(values, hour) ==
    IF values = <<>> THEN <<>>
    ELSE IF Len(values) = 1 THEN <<values[1]>>
    ELSE IF hour \in 6..21 THEN <<values[1]>> ELSE <<values[2]>>

ClaimWaitTooLong(itinerary, values) ==
    \E i \in 1..(Len(itinerary.segments) - 1) :
        LET arr  == itinerary.segments[i].arrival.at
            wait == itinerary.segments[i + 1].departure.at - arr
            lim  == ClaimLimit(values, HourOf(arr))
        IN  lim # <<>> /\ wait > lim[1]

Connections(itinerary) == Len(itinerary.segments) - 1

\* C6 as stated: the stops bound rejects whatever the segment count
C6_AsStated ==
    (pc = "probe_stopovers" /\ verdict # <<>>) =>
        (~verdict[2] <=>
            \/ ClaimWaitTooLong(probe, StopoverValues(verdict[1]))
            \/ Connections(probe) > ARGS.max_stops)

\* C6 as amended: the stops bound rejects only an itinerary that has at
\* least one connection (the test sits inside the loop over connections)
C6_StopoversOk ==
    (pc = "probe_stopovers" /\ verdict # <<>>) =>
        (~verdict[2] <=>
            \/ ClaimWaitTooLong(probe, StopoverValues(verdict[1]))
            \/ /\ Connections(probe) >= 1
               /\ Connections(probe) > ARGS.max_stops)

\* a night connection whose wait equals the night limit has been accepted
C6_Witness ==
    /\ pc = "probe_stopovers"
    /\ verdict = <<"departure", TRUE>>
    /\ ARGS.max_departure_stopover = <<120, 60>>
    /\ Connections(probe) = 1
    /\ day_period(HourOf(probe.segments[1].arrival.at)) = "night"
    /\ probe.segments[2].departure.at - probe.segments[1].arrival.at = 60

(***************************************************************************)
(* C8  In Range+Stay mode make_date_pairs emits exactly the pairs          *)
(* (d, d+stay) for every day d of [start, end] and every stay length of    *)
(* the expanded set, minus those whose return date lies outside the        *)
(* optional return window, ordered by departure day and then stay length,  *)
(* no pair twice.                                                          *)
(***************************************************************************)
\* the stay lengths the tokens of the command line denote
ClaimStaySet(tokens) ==
    { n \in 0..(MaxStay + 1) :
        \E i \in 1..Len(tokens) :
            \/ tokens[i].kind = "int" /\ tokens[i].n = n
            \/ tokens[i].kind = "range" /\ tokens[i].a <= n /\ n <= tokens[i].b }

TokensValid(tokens) == \A i \in 1..Len(tokens) : tokens[i].kind # "bad"

\* probe holds the command line as given (make_date_pairs overwrites max_stay)
RangeStayMode ==
    /\ TokensValid(probe.max_stay)
    /\ ClaimStaySet(probe.max_stay) # {}
    /\ probe.range_length = <<>>
    /\ probe.depart_start # <<>>
    /\ probe.depart_end # <<>>

ClaimRangePairs ==
    { <<d, d + s>> : d \in probe.depart_start[1]..probe.depart_end[1],
                     s \in ClaimStaySet(probe.max_stay) }

ClaimInReturnWindow(r) ==
    /\ probe.return_start = <<>> \/ probe.return_start[1] <= r
    /\ probe.return_end = <<>> \/ r <= probe.return_end[1]

\* C8: the pairs of Range+Stay mode are the windowed product, in order, none twice
C8_RangeStayPairs ==
    (pc # "start" /\ RangeStayMode) =>
        /\ pc \in {"sweep", "final"}
        /\ { date_pairs[i] : i \in 1..Len(date_pairs) }
             = { p \in ClaimRangePairs : ClaimInReturnWindow(p[2]) }
        /\ \A i, j \in 1..Len(date_pairs) :
               i < j => \/ date_pairs[i][1] < date_pairs[j][1]
                        \/ /\ date_pairs[i][1] = date_pairs[j][1]
                           /\ date_pairs[i][2] < date_pairs[j][2]

\* a return window has dropped some pairs of a window of several days, kept others
C8_Witness ==
    /\ pc = "sweep"
    /\ RangeStayMode
    /\ probe.depart_start[1] < probe.depart_end[1]
    /\ probe.return_start # <<>> /\ probe.return_end # <<>>
    /\ Len(date_pairs) >= 2
    /\ Len(date_pairs) < Cardinality(ClaimRangePairs)

(***************************************************************************)
(* C9  In Rolling Window+Stay mode make_date_pairs emits, for every offset *)
(* in [0, windowLengthDays) from the anchor and every stay length, the     *)
(* pair (anchor+offset, anchor+offset+stay), and completes with that       *)
(* sequence rather than failing.                                           *)
(***************************************************************************)
RollingMode ==
    /\ TokensValid(probe.max_stay)
    /\ ClaimStaySet(probe.max_stay) # {}
    /\ probe.range_length # <<>>
    /\ probe.range_start # <<>>

\* "N weeks" / "N days" / combinations, in days
ClaimWindowDays == 7 * probe.range_length[1].weeks + probe.range_length[1].days

\* C9: Rolling Window+Stay mode completes with the pairs of every offset and stay
C9_RollingPairs ==
    (pc # "start" /\ RollingMode) =>
        /\ pc \in {"sweep", "final"}
        /\ { date_pairs[i] : i \in 1..Len(date_pairs) }
             = { <<probe.range_start[1] + k, probe.range_start[1] + k + s>> :
                   k \in 0..(ClaimWindowDays - 1),
                   s \in ClaimStaySet(probe.max_stay) }

(***************************************************************************)
(* C11  display_offers emits output for an offer only if the offer passes  *)
(* every filter (the outbound day/time filter; in round-trip mode the      *)
(* same-arrival-airport check and the inbound day/time filter; the         *)
(* stopover checks of both itineraries): a rejected offer produces no      *)
(* printed output at all, no partial rendering of its legs.                *)
(***************************************************************************)
\* C11: whatever the latest call printed, in part or in full, belongs to an
\* offer that passes every filter
C11_OutputOnlyIfAccepted ==
    \A i \in 1..Len(out) : ClaimDisplayable(out[i].offer)

====
